---- MODULE Spec2Model ----
(***************************************************************************)
(* The view state of the Infinite canvas widget (src/src/canvas.rs): the   *)
(* pan offset, the exponential zoom level and the derived scale, the       *)
(* stored modifiers and pointer, driven by Widget::on_event, and the       *)
(* anchor-aware transforms that Buffer::draw applies to recorded items.    *)
(*                                                                         *)
(* Numbers.  An f32 is modelled as an exact rational <<n, d>> in lowest    *)
(* terms with d > 0; rounding is not modelled.  scale_level is counted in  *)
(* units of the effective zoom step (self.scale_step.unwrap_or(SCALE_STEP))*)
(* and ExpStep stands for E.powf(step), a rational greater than one, so    *)
(* that E.powf(scale_level) is ExpStep raised to the level.                *)
(***************************************************************************)
EXTENDS Integers, Sequences, FiniteSets, TLC

\* The number of events delivered to the widget in one behaviour.
MaxEvents == 4

\* The number of items recorded in one draw pass.
MaxItems == 2

\* The number of buffers Program::draw returns.
MaxBuffers == 2

-----------------------------------------------------------------------------
(* f32 arithmetic, exact *)

Abs(i) == IF i < 0 THEN -i ELSE i

RECURSIVE Gcd(_, _)
Gcd(a, b) == IF b = 0 THEN a ELSE Gcd(b, a % b)

DivBoth(n, d, g) == <<n \div g, d \div g>>

\* n / d in lowest terms, the denominator positive.
Rat(n, d) ==
    IF d < 0 THEN DivBoth(-n, -d, Gcd(Abs(n), -d))
             ELSE DivBoth(n, d, Gcd(Abs(n), d))

R(i) == <<i, 1>>

RAdd(a, b) == Rat(a[1] * b[2] + b[1] * a[2], a[2] * b[2])

RSub(a, b) == Rat(a[1] * b[2] - b[1] * a[2], a[2] * b[2])

RMul(a, b) == Rat(a[1] * b[1], a[2] * b[2])

RDiv(a, b) == Rat(a[1] * b[2], a[2] * b[1])

RNeg(a) == <<-a[1], a[2]>>

RLt(a, b) == a[1] * b[2] < b[1] * a[2]

\* iced::Vector and iced::Point: a pair of f32.
Vec(x, y) == <<R(x), R(y)>>

VAdd(a, b) == <<RAdd(a[1], b[1]), RAdd(a[2], b[2])>>

VSub(a, b) == <<RSub(a[1], b[1]), RSub(a[2], b[2])>>

VScale(a, k) == <<RMul(a[1], k), RMul(a[2], k)>>

VNeg(a) == <<RNeg(a[1]), RNeg(a[2])>>

ORIGIN == Vec(0, 0)

\* E.powf(step) for the effective zoom step.
ExpStep == <<3, 2>>

RECURSIVE RPow(_, _)
RPow(b, k) ==
    IF k = 0 THEN R(1)
    ELSE IF k > 0 THEN RMul(b, RPow(b, k - 1))
    ELSE RDiv(R(1), RPow(b, -k))

\* E.powf(level), level in zoom steps.
Powf(level) == RPow(ExpStep, level)

-----------------------------------------------------------------------------
(* The widget's configuration and its environment *)

\* layout.bounds() of the widget.
Bounds == [x |-> 2, y |-> 1, width |-> 8, height |-> 6]

\* Rectangle::center
BoundsCenter(b) ==
    <<RAdd(R(b.x), Rat(b.width, 2)), RAdd(R(b.y), Rat(b.height, 2))>>

\* Rectangle::contains
Contains(b, p) ==
    /\ ~RLt(p[1], R(b.x)) /\ RLt(p[1], R(b.x + b.width))
    /\ ~RLt(p[2], R(b.y)) /\ RLt(p[2], R(b.y + b.height))

\* mouse::Cursor: Available(point) or Unavailable.
Available(p) == [available |-> TRUE, position |-> p]

Unavailable == [available |-> FALSE, position |-> ORIGIN]

\* Cursor::is_over
IsOver(c, b) == c.available /\ Contains(b, c.position)

\* Option<Point>
Some(p) == [some |-> TRUE, value |-> p]

None == [some |-> FALSE, value |-> ORIGIN]

\* Option::unwrap_or
UnwrapOr(o, d) == IF o.some THEN o.value ELSE d

\* keyboard::Modifiers, the two flags the widget reads.
Mods(s, c) == [shift |-> s, command |-> c]

ModifierSet == {Mods(s, c) : s \in BOOLEAN, c \in BOOLEAN}

\* Infinite::new followed by the builder calls scroll_direction, zoom,
\* scroll_step, with a Program declaring init_scroll and init_zoom.
Canvas(dir, allow, step, scroll, zoom) ==
    [direction |-> dir, allow_scale |-> allow, offset_step |-> step,
     init_scroll |-> scroll, init_zoom |-> zoom]

Canvases ==
    { Canvas("Both", TRUE, None, Vec(0, 0), 0),
      Canvas("Both", TRUE, None, Vec(3, -2), 1),
      Canvas("X", FALSE, None, Vec(0, 0), 1),
      Canvas("Y", TRUE, None, Vec(3, -2), 1),
      Canvas("None", TRUE, None, Vec(0, 0), 0),
      Canvas("Both", TRUE, Some(Vec(4, 5)), Vec(0, 0), 0) }

-----------------------------------------------------------------------------
(* InfiniteState *)

\* InfiniteState::new
InfiniteStateNew ==
    [offset            |-> Vec(0, 0),
     scale_level       |-> 0,
     scale             |-> Powf(0),
     keyboard_modifier |-> Mods(FALSE, FALSE),
     mouse_position    |-> None]

\* InfiniteState::set_mouse_position
set_mouse_position(s, position) == [s EXCEPT !.mouse_position = position]

\* Vector::new(diff * v.x, -diff * v.y)
FlipScaled(diff, v) == <<RMul(diff, v[1]), RMul(RNeg(diff), v[2])>>

\* add_level, the ratio of the scales in the focal_origin branch.
AddLevelRatio(diff, prev_scale, scale) ==
    IF diff < 0 THEN RDiv(prev_scale, scale) ELSE RDiv(scale, prev_scale)

\* A delta whose focal point without a stored pointer is (1,1).
AddLevelDeltaNoOrigin(s, diff, focal_origin, prev_scale, scale) ==
    IF focal_origin
    THEN FlipScaled(RSub(R(1), AddLevelRatio(diff, prev_scale, scale)),
                    s.offset)
    ELSE FlipScaled(RSub(scale, prev_scale),
                    UnwrapOr(s.mouse_position, Vec(1, 1)))

\* add_level, the offset delta.
AddLevelDelta(s, diff, focal_origin, prev_scale, scale) ==
    IF focal_origin
    THEN FlipScaled(RSub(R(1), AddLevelRatio(diff, prev_scale, scale)),
                    s.offset)
    ELSE FlipScaled(RSub(scale, prev_scale),
                    UnwrapOr(s.mouse_position, ORIGIN))

AddLevelAssignStale(s, level, scale, delta) ==
    [state |-> [s EXCEPT !.scale_level = level,
                         !.offset = VAdd(s.offset, delta)],
     delta |-> delta]

\* add_level, its assignments: scale_level += diff, scale = E.powf(level),
\* offset = offset + delta; and the delta returned.
AddLevelAssign(s, level, scale, delta) ==
    [state |-> [s EXCEPT !.scale_level = level,
                         !.scale = scale,
                         !.offset = VAdd(s.offset, delta)],
     delta |-> delta]

AddLevelScaled(s, diff, focal_origin, scale) ==
    AddLevelAssign(s, s.scale_level + diff, scale,
                   AddLevelDelta(s, diff, focal_origin, s.scale, scale))

\* InfiniteState::add_level: the new state and the offset delta it returns.
add_level(s, diff, focal_origin) ==
    AddLevelScaled(s, diff, focal_origin, Powf(s.scale_level + diff))

\* InfiniteState::set_scale_level
set_scale_level(s, level) ==
    [s EXCEPT !.scale_level = level, !.scale = Powf(level)]

\* InfiniteState::reset_offset
reset_offset(s, init) == [s EXCEPT !.offset = init]

\* A reset of the scale that leaves the offset alone.
ResetScaleAssignPlain(s, init, scale) ==
    [s EXCEPT !.scale_level = init, !.scale = scale]

\* InfiniteState::reset_scale
ResetScaleAssign(s, init, scale) ==
    [s EXCEPT !.scale_level = init,
              !.scale = scale,
              !.offset = VAdd(s.offset,
                              FlipScaled(RSub(scale, s.scale),
                                         UnwrapOr(s.mouse_position, ORIGIN)))]

reset_scale(s, init) == ResetScaleAssign(s, init, Powf(init))

reset_all_swapped(s, offset, scale) ==
    reset_scale(reset_offset(s, offset), scale)

\* InfiniteState::reset_all
reset_all(s, offset, scale) == reset_offset(reset_scale(s, scale), offset)

\* Widget::state: the widget state created for a canvas.
WidgetState(cv) ==
    set_scale_level([InfiniteStateNew EXCEPT !.offset = cv.init_scroll],
                    cv.init_zoom)

-----------------------------------------------------------------------------
(* Coordinate transforms *)

\* The screen-to-world computation shared by get_cursors and wrap_event.
FlipX(p) == <<RNeg(p[1]), p[2]>>

\* The computation without its last line, the negation of x.
ScreenToWorldUnflipped(point, bounds, offset, scale) ==
    VScale(VSub(VSub(BoundsCenter(bounds), point), offset),
           RDiv(R(1), scale))

ScreenToWorld(point, bounds, offset, scale) ==
    FlipX(VScale(VSub(VSub(BoundsCenter(bounds), point), offset),
                 RDiv(R(1), scale)))

\* get_cursors: the second cursor of the pair (the first is the argument).
get_cursors(cursor, bounds, offset, scale) ==
    IF cursor.available
    THEN Available(ScreenToWorld(cursor.position, bounds, offset, scale))
    ELSE cursor

\* Cursor::position
CursorPosition(c) == IF c.available THEN Some(c.position) ELSE None

\* style::default: border_width = 2.5
BorderWidth == <<5, 2>>

\* Widget::draw: the centre of the Frame, whose size is the bounds less the
\* border on each side.
FrameCenter(bounds) ==
    <<RDiv(RSub(R(bounds.width), RMul(R(2), BorderWidth)), R(2)),
      RDiv(RSub(R(bounds.height), RMul(R(2), BorderWidth)), R(2))>>

\* A match whose Anchor::X and Anchor::Y arms are exchanged.
PathAnchorOffsetSwapped(offset, anchor) ==
    CASE anchor = "None" -> offset
      [] anchor = "X"    -> <<offset[1], R(0)>>
      [] anchor = "Y"    -> <<R(0), offset[2]>>
      [] anchor = "Both" -> Vec(0, 0)

\* The offset an anchor lets through (the match of transform_path).
PathAnchorOffset(offset, anchor) ==
    CASE anchor = "None" -> offset
      [] anchor = "X"    -> <<R(0), offset[2]>>
      [] anchor = "Y"    -> <<offset[1], R(0)>>
      [] anchor = "Both" -> Vec(0, 0)

\* transform_path applied to one vertex of the path:
\* Transform2D::new(scale, 0, 0, -scale, trans_x, trans_y).
Transform2D(scale, trans, point) ==
    <<RAdd(RMul(scale, point[1]), trans[1]),
      RAdd(RMul(RNeg(scale), point[2]), trans[2])>>

\* A transform that takes the scale whatever the flag.
transform_path_scaled(s, center, point, anchor, scaled) ==
    Transform2D(s.scale,
                VSub(center, PathAnchorOffset(s.offset, anchor)),
                point)

transform_path(s, center, point, anchor, scaled) ==
    Transform2D(IF scaled THEN s.scale ELSE R(1),
                VSub(center, PathAnchorOffset(s.offset, anchor)),
                point)

\* translate_point
PointAnchorOffset(offset, anchor) ==
    CASE anchor = "Both" -> Vec(0, 0)
      [] anchor = "X"    -> <<R(0), offset[2]>>
      [] anchor = "Y"    -> <<offset[1], R(0)>>
      [] anchor = "None" -> offset

\* translate_point, its last lines: x = center.x + point.x,
\* y = center.y - point.y, point already scaled.
PlacePoint(c, p) == <<RAdd(c[1], p[1]), RSub(c[2], p[2])>>

translate_point(s, center, point, anchor) ==
    PlacePoint(VSub(center, PointAnchorOffset(s.offset, anchor)),
               VScale(point, s.scale))

\* transform_text: the position through translate_point, the rest (the font
\* size among it) copied.
transform_text(s, center, text, anchor) ==
    [text EXCEPT !.position = translate_point(s, center, text.position, anchor)]

-----------------------------------------------------------------------------
(* Buffer *)

\* Option<Anchor>
SomeAnchor(a) == [some |-> TRUE, value |-> a]

NoAnchor == [some |-> FALSE, value |-> "None"]

Anchors == {"Both", "X", "Y", "None"}

\* Buffer::new
BufferNew ==
    [fills |-> <<>>, strokes |-> <<>>, text |-> <<>>,
     anchor |-> NoAnchor, scale |-> TRUE]

\* Buffer::anchor_all
anchor_all(b, anchor) == [b EXCEPT !.anchor = SomeAnchor(anchor)]

\* Buffer::scale_all
scale_all(b, scale) == [b EXCEPT !.scale = scale]

\* One recorded item: the path or the text, and the anchor pushed with it.
\* given is history the tuple of the source does not hold: the anchor the
\* recording call was handed, NoAnchor for a call that takes none.
Item(what, anchor, given) ==
    [what |-> what, anchor |-> anchor, given |-> given]

\* Buffer::draw_text_anchored
draw_text_anchored(b, text, anchor) ==
    [b EXCEPT !.text = Append(b.text, Item(text, anchor, SomeAnchor(anchor)))]

\* Buffer::draw_text
draw_text(b, text) ==
    [b EXCEPT !.text = Append(b.text, Item(text, UnwrapOr(b.anchor, "None"), NoAnchor))]

\* Buffer::fill_anchored
fill_anchored(b, path, anchor) ==
    [b EXCEPT !.fills = Append(b.fills, Item(path, anchor, SomeAnchor(anchor)))]

\* Buffer::fill
fill(b, path) ==
    [b EXCEPT !.fills = Append(b.fills, Item(path, UnwrapOr(b.anchor, "None"), NoAnchor))]

\* Buffer::stroke_anchored
stroke_anchored(b, path, anchor) ==
    [b EXCEPT !.strokes = Append(b.strokes, Item(path, anchor, SomeAnchor(anchor)))]

\* Buffer::stroke
stroke(b, path) ==
    [b EXCEPT !.strokes =
         Append(b.strokes,
                Item(path, UnwrapOr(b.anchor, "None"), NoAnchor))]

\* Path::transform: transform_path on every vertex of the path.
TransformPath(s, center, path, anchor, scaled) ==
    [i \in 1..Len(path) |-> transform_path(s, center, path[i], anchor, scaled)]

\* What the Frame receives: frame.fill, frame.stroke or frame.fill_text
\* with the transformed path or text.
Emitted(call, what) == [call |-> call, what |-> what]

RenderAnchorRecorded(b, anchor) == anchor

\* self.anchor.unwrap_or(*anchor)
RenderAnchor(b, anchor) == UnwrapOr(b.anchor, anchor)

\* Buffer::draw_fills
draw_fills(b, s, center) ==
    [i \in 1..Len(b.fills) |->
        Emitted("fill", TransformPath(s, center, b.fills[i].what,
                            RenderAnchor(b, b.fills[i].anchor), b.scale))]

\* Buffer::draw_strokes
draw_strokes(b, s, center) ==
    [i \in 1..Len(b.strokes) |->
        Emitted("stroke", TransformPath(s, center, b.strokes[i].what,
                              RenderAnchor(b, b.strokes[i].anchor), b.scale))]

\* Buffer::draw_texts
draw_texts(b, s, center) ==
    [i \in 1..Len(b.text) |->
        Emitted("fill_text", transform_text(s, center, b.text[i].what,
                                 RenderAnchor(b, b.text[i].anchor)))]

\* A draw that emits the text of a buffer before its fills and strokes.
BufferDrawTextFirst(b, s, center) ==
    draw_texts(b, s, center) \o draw_fills(b, s, center)
        \o draw_strokes(b, s, center)

\* Buffer::draw
BufferDraw(b, s, center) ==
    draw_fills(b, s, center) \o draw_strokes(b, s, center)
        \o draw_texts(b, s, center)

\* Widget::draw, its loop: for buffer in buffers { buffer.draw(..) }
RECURSIVE DrawBuffers(_, _, _)
DrawBuffers(bs, s, center) ==
    IF bs = <<>> THEN <<>>
    ELSE BufferDraw(Head(bs), s, center) \o DrawBuffers(Tail(bs), s, center)

-----------------------------------------------------------------------------
(* Events *)

\* iced::Event, the fields the widget reads.  kind is Mouse, Keyboard, Touch
\* or Window; unit is the variant of mouse::ScrollDelta.
Event(kind, name, unit, delta, key, modifiers, position) ==
    [kind |-> kind, name |-> name, unit |-> unit, delta |-> delta,
     key |-> key, modifiers |-> modifiers, position |-> position]

NoMods == Mods(FALSE, FALSE)

WheelScrolled(unit, x, y) ==
    Event("Mouse", "WheelScrolled", unit, Vec(x, y), "", NoMods, ORIGIN)

KeyPressed(key, modifiers) ==
    Event("Keyboard", "KeyPressed", "", ORIGIN, key, modifiers, ORIGIN)

ModifiersChanged(modifiers) ==
    Event("Keyboard", "ModifiersChanged", "", ORIGIN, "", modifiers, ORIGIN)

CursorMoved(position) ==
    Event("Mouse", "CursorMoved", "", ORIGIN, "", NoMods, position)

CursorLeft == Event("Mouse", "CursorLeft", "", ORIGIN, "", NoMods, ORIGIN)

ButtonPressed == Event("Mouse", "ButtonPressed", "", ORIGIN, "", NoMods, ORIGIN)

FingerMoved(position) ==
    Event("Touch", "FingerMoved", "", ORIGIN, "", NoMods, position)

WindowEvent == Event("Window", "RedrawRequested", "", ORIGIN, "", NoMods, ORIGIN)

NoEvent == Event("", "", "", ORIGIN, "", NoMods, ORIGIN)

\* wrap_event: the canvas event handed to Program::update, if any.
wrap_event(event, bounds, offset, scale) ==
    CASE event.kind = "Mouse" /\ event.name = "CursorMoved" ->
            Some([event EXCEPT !.position =
                     ScreenToWorld(event.position, bounds, offset, scale)])
      [] event.kind = "Mouse" /\ event.name # "CursorMoved" -> Some(event)
      [] event.kind = "Keyboard" -> Some(event)
      [] event.kind = "Touch" ->
            Some([event EXCEPT !.position =
                     ScreenToWorld(event.position, bounds, offset, scale)])
      [] OTHER -> [some |-> FALSE, value |-> NoEvent]

\* impl From<event::Status> for iced::event::Status
StatusInto(status) ==
    CASE status = "Captured" -> "Captured"
      [] status = "Ignored"  -> "Captured"

\* One call of a Program callback with the arguments the claims read.
Call(name, scroll, diff, zoom, zoom_diff, focal_point) ==
    [name |-> name, scroll |-> scroll, diff |-> diff, zoom |-> zoom,
     zoom_diff |-> zoom_diff, focal_point |-> focal_point]

on_scroll(scroll, diff) == Call("on_scroll", scroll, diff, R(0), 0, ORIGIN)

on_zoom(focal_point, zoom, diff) ==
    Call("on_zoom", ORIGIN, ORIGIN, zoom, diff, focal_point)

on_scroll_reset(scroll) ==
    Call("on_scroll_reset", scroll, ORIGIN, R(0), 0, ORIGIN)

on_zoom_reset(zoom) == Call("on_zoom_reset", ORIGIN, ORIGIN, zoom, 0, ORIGIN)

\* What one on_event call did: the state it leaves, the status it returns,
\* the branch taken and the Program callbacks invoked, in order.
Outcome(s, status, action, calls) ==
    [state |-> s, status |-> status, action |-> action, calls |-> calls]

\* handle_scale
HandleScaleCalls(r, zoom, focal_origin) ==
    Outcome(r.state, "Captured",
            IF focal_origin THEN "ZoomOrigin" ELSE "ZoomPointer",
            <<on_zoom(IF focal_origin THEN ORIGIN
                      ELSE UnwrapOr(r.state.mouse_position, ORIGIN),
                      r.state.scale, zoom),
              on_scroll(r.state.offset, r.delta)>>)

handle_scale(s, zoom, focal_origin) ==
    HandleScaleCalls(add_level(s, zoom, focal_origin), zoom, focal_origin)

\* SCALE_STEP, or the step given to Infinite::zoom_step: one level unit.
SCALE_STEP == 1

OFFSET_STEP == 25

TranslateSwapped(s, offset) == [s EXCEPT !.offset = VSub(offset, s.offset)]

\* state.offset = state.offset - offset
Translate(s, offset) == [s EXCEPT !.offset = VSub(s.offset, offset)]

\* The translation of a wheel event: the wheel's delta (or the configured
\* scroll step) filtered by the scroll direction, times 100 for Lines.
WheelVectorSwapped(direction, xy) ==
    CASE direction = "X"    -> <<R(0), xy[2]>>
      [] direction = "Y"    -> <<xy[1], R(0)>>
      [] direction = "Both" -> xy

WheelVector(direction, xy) ==
    CASE direction = "X"    -> <<xy[1], R(0)>>
      [] direction = "Y"    -> <<R(0), xy[2]>>
      [] direction = "Both" -> xy

WheelOffset(cv, event) ==
    VScale(WheelVector(cv.direction, UnwrapOr(cv.offset_step, event.delta)),
           IF event.unit = "Lines" THEN R(100) ELSE R(1))

\* The on_scroll call and the Captured status that end a translation arm.
Scrolled(st, diff) ==
    Outcome(st, "Captured", "Pan", <<on_scroll(st.offset, diff)>>)

\* A wheel translation by offset.
WheelTranslation(s, offset) == Scrolled(Translate(s, offset), VNeg(offset))

\* A step that takes a wheel y of 0 as a zoom out.
WheelStepZeroDown(event) ==
    IF RLt(R(0), event.delta[2]) THEN SCALE_STEP ELSE -SCALE_STEP

\* let step = if y < 0. { -scale_step } else { scale_step }
WheelStep(event) ==
    IF RLt(event.delta[2], R(0)) THEN -SCALE_STEP ELSE SCALE_STEP

\* A wheel arm whose Shift guard comes before its Shift and Command guard.
OnWheelShiftFirst(cv, s, event) ==
    IF s.keyboard_modifier.shift
    THEN IF ~cv.allow_scale
         THEN Outcome(s, "Ignored", "ZoomDisabled", <<>>)
         ELSE handle_scale(s, WheelStep(event), FALSE)
    ELSE IF cv.direction = "None"
    THEN Outcome(s, "Ignored", "ScrollDisabled", <<>>)
    ELSE WheelTranslation(s, WheelOffset(cv, event))

\* A wheel arm that zooms without consulting allow_scale.
OnWheelZoomUnguarded(cv, s, event) ==
    IF s.keyboard_modifier.shift /\ s.keyboard_modifier.command
    THEN handle_scale(s, WheelStep(event), TRUE)
    ELSE IF s.keyboard_modifier.shift
    THEN handle_scale(s, WheelStep(event), FALSE)
    ELSE IF cv.direction = "None"
    THEN Outcome(s, "Ignored", "ScrollDisabled", <<>>)
    ELSE WheelTranslation(s, WheelOffset(cv, event))

\* The wheel arm of on_event; the modifiers are the stored ones.
OnWheel(cv, s, event) ==
    IF s.keyboard_modifier.shift /\ s.keyboard_modifier.command
    THEN IF ~cv.allow_scale
         THEN Outcome(s, "Ignored", "ZoomDisabled", <<>>)
         ELSE handle_scale(s, WheelStep(event), TRUE)
    ELSE IF s.keyboard_modifier.shift
    THEN IF ~cv.allow_scale
         THEN Outcome(s, "Ignored", "ZoomDisabled", <<>>)
         ELSE handle_scale(s, WheelStep(event), FALSE)
    ELSE IF cv.direction = "None"
    THEN Outcome(s, "Ignored", "ScrollDisabled", <<>>)
    ELSE WheelTranslation(s, WheelOffset(cv, event))

\* A Command+arrow translation: the step along the arrow's axis filtered by
\* the scroll direction, times 1/scale, subtracted (Up, Left) or added.
ArrowVector(direction, key, step) ==
    IF key \in {"ArrowUp", "ArrowDown"}
    THEN IF direction = "X" THEN Vec(0, 0) ELSE <<R(0), step[2]>>
    ELSE IF direction = "Y" THEN Vec(0, 0) ELSE <<step[1], R(0)>>

ArrowOffset(cv, s, key) ==
    VScale(ArrowVector(cv.direction, key,
                       UnwrapOr(cv.offset_step, Vec(OFFSET_STEP, OFFSET_STEP))),
           RDiv(R(1), s.scale))

\* Arrow translations that all report -offset as the diff.
ArrowTranslationNegated(s, key, offset) ==
    IF key \in {"ArrowUp", "ArrowLeft"}
    THEN Scrolled(Translate(s, offset), VNeg(offset))
    ELSE Scrolled([s EXCEPT !.offset = VAdd(s.offset, offset)], VNeg(offset))

\* state.offset = state.offset - offset for ArrowUp and ArrowLeft,
\* state.offset = state.offset + offset for ArrowDown and ArrowRight.
ArrowTranslation(s, key, offset) ==
    IF key \in {"ArrowUp", "ArrowLeft"}
    THEN Scrolled(Translate(s, offset), VNeg(offset))
    ELSE Scrolled([s EXCEPT !.offset = VAdd(s.offset, offset)], offset)

OnArrowPan(cv, s, key) ==
    IF cv.direction = "None"
    THEN Outcome(s, "Ignored", "ScrollDisabled", <<>>)
    ELSE ArrowTranslation(s, key, ArrowOffset(cv, s, key))

\* The three Home arms of on_event.
\* The Shift+Home arm after reset_scale: on_zoom_reset(state.scale).
ZoomReset(st) ==
    Outcome(st, "Captured", "ResetZoom", <<on_zoom_reset(st.scale)>>)

\* Home arms whose Shift guard comes before the Command guard.
OnHomeShiftFirst(cv, s, modifiers) ==
    IF modifiers.shift
    THEN ZoomReset(reset_scale(s, cv.init_zoom))
    ELSE IF modifiers.command
    THEN Outcome(reset_all(s, cv.init_scroll, cv.init_zoom),
                 "Captured", "ResetBoth",
                 <<on_scroll_reset(cv.init_scroll),
                   on_zoom_reset(R(cv.init_zoom))>>)
    ELSE Outcome(reset_offset(s, cv.init_scroll), "Captured", "ResetPan",
                 <<on_scroll_reset(cv.init_scroll)>>)

OnHome(cv, s, modifiers) ==
    IF modifiers.command
    THEN Outcome(reset_all(s, cv.init_scroll, cv.init_zoom),
                 "Captured", "ResetBoth",
                 <<on_scroll_reset(cv.init_scroll),
                   on_zoom_reset(R(cv.init_zoom))>>)
    ELSE IF modifiers.shift
    THEN ZoomReset(reset_scale(s, cv.init_zoom))
    ELSE Outcome(reset_offset(s, cv.init_scroll), "Captured", "ResetPan",
                 <<on_scroll_reset(cv.init_scroll)>>)

\* The KeyPressed arm of on_event; the modifiers are the event's.
\* scale_step for ArrowUp, -scale_step for ArrowDown
ArrowStep(key) == IF key = "ArrowUp" THEN SCALE_STEP ELSE -SCALE_STEP

OnKeyPressed(cv, s, key, modifiers) ==
    CASE key \in {"ArrowUp", "ArrowDown"}
           /\ modifiers.shift /\ modifiers.command ->
            IF ~cv.allow_scale
            THEN Outcome(s, "Ignored", "ZoomDisabled", <<>>)
            ELSE handle_scale(s, ArrowStep(key), TRUE)
      [] key \in {"ArrowUp", "ArrowDown"}
           /\ modifiers.shift /\ ~modifiers.command ->
            IF ~cv.allow_scale
            THEN Outcome(s, "Ignored", "ZoomDisabled", <<>>)
            ELSE handle_scale(s, ArrowStep(key), FALSE)
      [] key \in {"ArrowUp", "ArrowDown"}
           /\ ~modifiers.shift /\ modifiers.command ->
            OnArrowPan(cv, s, key)
      [] key \in {"ArrowLeft", "ArrowRight"} /\ modifiers.command ->
            OnArrowPan(cv, s, key)
      [] key = "Home" -> OnHome(cv, s, modifiers)
      [] OTHER -> Outcome(s, "Ignored", "Unhandled", <<>>)

\* Widget::on_event.  update is the status Program::update returns for the
\* event; the Program's own state is opaque and not part of the view state.
EarlyReturnMissing(called, update, s, rest) == rest

\* if status == event::Status::Captured { return status.into(); }
\* called: wrap_event gave a canvas event, so Program::update was called.
EarlyReturn(called, update, s, rest) ==
    IF called /\ update = "Captured"
    THEN Outcome(s, StatusInto(update), "ProgramCaptured", <<>>)
    ELSE rest

HoverGuardMissing(cur, s, rest) == rest

\* if !cursor.is_over(bounds) { return iced_event::Status::Ignored; }
HoverGuard(cur, s, rest) ==
    IF ~IsOver(cur, Bounds)
    THEN Outcome(s, "Ignored", "NotHovered", <<>>)
    ELSE rest

\* The match on the event that ends on_event.
OnEventMatch(cv, s, event, cur) ==
    CASE event.name = "WheelScrolled" -> OnWheel(cv, s, event)
      [] event.name = "KeyPressed" ->
           OnKeyPressed(cv, s, event.key, event.modifiers)
      [] event.name = "ModifiersChanged" ->
           Outcome([s EXCEPT !.keyboard_modifier = event.modifiers],
                   "Captured", "ModifiersChanged", <<>>)
      [] event.name = "CursorMoved" ->
           Outcome(set_mouse_position(s, CursorPosition(
                       get_cursors(cur, Bounds, s.offset, s.scale))),
                   "Captured", "CursorMoved", <<>>)
      [] event.name = "CursorLeft" ->
           Outcome(set_mouse_position(s, None),
                   "Captured", "CursorLeft", <<>>)
      [] OTHER -> Outcome(s, "Ignored", "Unhandled", <<>>)

\* on_event from the hover guard on.
OnEventHovering(cv, s, event, cur) ==
    HoverGuard(cur, s, OnEventMatch(cv, s, event, cur))

on_event(cv, s, event, cur, update) ==
    EarlyReturn(wrap_event(event, Bounds, s.offset, s.scale).some, update, s,
                OnEventHovering(cv, s, event, cur))

-----------------------------------------------------------------------------
(* The widget under a stream of events *)

VARIABLES
    canvas,     \* the Infinite widget: its configuration and its Program
    state,      \* the InfiniteState held in the widget tree
    cursor,     \* the mouse::Cursor the runtime passes to on_event
    held,       \* the modifiers held on the keyboard
    last,       \* the last on_event call: its inputs, and what it did
    hist,       \* the current run of wheel pans, the current run of
                \* origin-focused zooms, where the pointer was last stored
    nevents,    \* the number of events delivered
    buffers,    \* the Vec<Buffer> that Program::draw is building
    frame       \* what Widget::draw has emitted to the Frame, once drawn

vars == <<canvas, state, cursor, held, last, hist, nevents, buffers, frame>>

widget == <<canvas, state, cursor, held, last, hist, nevents>>

\* Where the cursor can be: the centre of the bounds, a point inside them
\* off the centre, a point outside them.
PCentre == <<R(6), R(4)>>

PInside == <<R(9), R(2)>>

POutside == <<R(12), R(4)>>

CursorPoints == {PCentre, PInside, POutside}

WheelDeltas ==
    { WheelScrolled("Lines", 0, 1), WheelScrolled("Lines", 1, -1),
      WheelScrolled("Pixels", 2, -4), WheelScrolled("Pixels", -3, 0) }

Keys == {"ArrowUp", "ArrowDown", "ArrowLeft", "ArrowRight", "Home", "Tab"}

Statuses == {"Captured", "Ignored"}

Last(event, cur, update, before, o) ==
    [event |-> event, cursor |-> cur, update |-> update, before |-> before,
     status |-> o.status, action |-> o.action, calls |-> o.calls]

\* The offset and the zoom level of a state.
View(s) == [offset |-> s.offset, scale_level |-> s.scale_level]

ViewActions ==
    {"Pan", "ZoomOrigin", "ZoomPointer", "ResetBoth", "ResetZoom", "ResetPan"}

\* The history after on_event(event) with the cursor at cur did o:
\* pans, the translations of the wheel pans since the last other change of
\* the view, and pan_base, the offset they started from; zooms, the steps of
\* the origin-focused zooms since the last other change of the view, and
\* zoom_base, the view they started from; moved_at, the screen point of the
\* last CursorMoved that stored the pointer, while the cursor stays there.
History(h, event, cur, o) ==
    IF o.action = "Pan" /\ event.name = "WheelScrolled"
    THEN [h EXCEPT !.pans = Append(h.pans, WheelOffset(canvas, event)),
                   !.zooms = <<>>, !.zoom_base = View(o.state)]
    ELSE IF o.action = "ZoomOrigin"
    THEN [h EXCEPT !.zooms = Append(h.zooms, o.calls[1].zoom_diff),
                   !.pans = <<>>, !.pan_base = o.state.offset]
    ELSE IF o.action \in ViewActions
    THEN [h EXCEPT !.pans = <<>>, !.pan_base = o.state.offset,
                   !.zooms = <<>>, !.zoom_base = View(o.state)]
    ELSE IF o.action = "CursorMoved"
    THEN [h EXCEPT !.moved_at = Some(cur.position)]
    ELSE IF event.name = "CursorLeft" \/ cur # cursor
    THEN [h EXCEPT !.moved_at = None]
    ELSE h

NotDrawn == [drawn |-> FALSE, items |-> <<>>]

Init ==
    /\ canvas \in Canvases
    /\ state = WidgetState(canvas)
    /\ cursor \in {Unavailable, Available(PInside)}
    /\ held = NoMods
    /\ buffers = <<>>
    /\ frame = NotDrawn
    /\ last = Last(NoEvent, Unavailable, "Ignored", state,
                   Outcome(state, "Ignored", "", <<>>))
    /\ hist = [pan_base |-> state.offset, pans |-> <<>>,
               zoom_base |-> View(state), zooms |-> <<>>,
               moved_at |-> None]
    /\ nevents = 0

\* The runtime delivers event to on_event with the cursor at cur, and the
\* Program's update answers with the status update.
Handled(event, cur, update, o) ==
    /\ nevents < MaxEvents
    /\ nevents' = nevents + 1
    /\ state' = o.state
    /\ cursor' = cur
    /\ last' = Last(event, cur, update, state, o)
    /\ hist' = History(hist, event, cur, o)
    /\ UNCHANGED <<canvas, buffers, frame>>

Deliver(event, cur, update) ==
    Handled(event, cur, update, on_event(canvas, state, event, cur, update))

Wheel ==
    \E event \in WheelDeltas, update \in Statuses :
        /\ Deliver(event, cursor, update)
        /\ UNCHANGED held

Key ==
    \E key \in Keys, update \in Statuses :
        /\ Deliver(KeyPressed(key, held), cursor, update)
        /\ UNCHANGED held

Modifiers ==
    \E m \in ModifierSet \ {held}, update \in Statuses :
        /\ Deliver(ModifiersChanged(m), cursor, update)
        /\ held' = m

MoveCursor ==
    \E p \in CursorPoints, update \in Statuses :
        /\ Deliver(CursorMoved(p), Available(p), update)
        /\ UNCHANGED held

LeaveCursor ==
    \E cur \in {Unavailable, cursor}, update \in Statuses :
        /\ Deliver(CursorLeft, cur, update)
        /\ UNCHANGED held

Other ==
    \E event \in {ButtonPressed, FingerMoved(PInside), WindowEvent},
       update \in Statuses :
        /\ Deliver(event, cursor, update)
        /\ UNCHANGED held

Next ==
    \/ Wheel
    \/ Key
    \/ Modifiers
    \/ MoveCursor
    \/ LeaveCursor
    \/ Other

Spec == Init /\ [][Next]_vars

-----------------------------------------------------------------------------
(* One draw pass: Program::draw records buffers, Widget::draw renders them *)

\* The paths recorded: a segment, given by its end points.
Paths == { <<Vec(-1, 3), Vec(4, -2)>> }

\* The texts recorded: canvas::Text, its position and its font size.
Texts == { [position |-> Vec(4, -2), size |-> 16] }

\* The views a draw pass can find: on a canvas that scrolls both ways by the
\* wheel's own delta, the widget's first state after a wheel translation and
\* after pointer-focused zoom steps with no pointer stored.
DrawPans == {Vec(2, -1)}

DrawZooms == {-1, 2}

DrawState(cv, pan, diff) ==
    add_level(Translate(WidgetState(cv), pan), diff, FALSE).state

InitDraw ==
    /\ canvas \in {cv \in Canvases :
                      cv.direction = "Both" /\ ~cv.offset_step.some}
    /\ \E pan \in DrawPans, diff \in DrawZooms :
           state = DrawState(canvas, pan, diff)
    /\ cursor = Unavailable
    /\ held = NoMods
    /\ last = Last(NoEvent, Unavailable, "Ignored", state,
                   Outcome(state, "Ignored", "", <<>>))
    /\ hist = [pan_base |-> state.offset, pans |-> <<>>,
               zoom_base |-> View(state), zooms |-> <<>>,
               moved_at |-> None]
    /\ nevents = 0
    /\ buffers = <<>>
    /\ frame = NotDrawn

RECURSIVE Recorded(_)
Recorded(bs) ==
    IF bs = <<>> THEN 0
    ELSE Len(Head(bs).fills) + Len(Head(bs).strokes) + Len(Head(bs).text)
         + Recorded(Tail(bs))

\* The buffer being recorded is the last of buffers.
Recording == ~frame.drawn /\ buffers # <<>>

CanRecord == Recording /\ Recorded(buffers) < MaxItems

Current == buffers[Len(buffers)]

Record(b) ==
    /\ buffers' = [buffers EXCEPT ![Len(buffers)] = b]
    /\ UNCHANGED <<widget, frame>>

NewBuffer ==
    /\ ~frame.drawn
    /\ Len(buffers) < MaxBuffers
    /\ buffers' = Append(buffers, BufferNew)
    /\ UNCHANGED <<widget, frame>>

AnchorAll == Recording /\ \E a \in Anchors : Record(anchor_all(Current, a))

ScaleAll == Recording /\ \E sc \in BOOLEAN : Record(scale_all(Current, sc))

Fill == CanRecord /\ \E path \in Paths : Record(fill(Current, path))

FillAnchored ==
    CanRecord /\ \E path \in Paths, a \in Anchors :
        Record(fill_anchored(Current, path, a))

Stroke == CanRecord /\ \E path \in Paths : Record(stroke(Current, path))

StrokeAnchored ==
    CanRecord /\ \E path \in Paths, a \in Anchors :
        Record(stroke_anchored(Current, path, a))

DrawText == CanRecord /\ \E text \in Texts : Record(draw_text(Current, text))

DrawTextAnchored ==
    CanRecord /\ \E text \in Texts, a \in Anchors :
        Record(draw_text_anchored(Current, text, a))

\* Widget::draw with the buffers Program::draw returned.
Draw ==
    /\ ~frame.drawn
    /\ frame' = [drawn |-> TRUE,
                 items |-> DrawBuffers(buffers, state, FrameCenter(Bounds))]
    /\ UNCHANGED <<widget, buffers>>

NextDraw ==
    \/ NewBuffer
    \/ AnchorAll
    \/ ScaleAll
    \/ Fill
    \/ FillAnchored
    \/ Stroke
    \/ StrokeAnchored
    \/ DrawText
    \/ DrawTextAnchored
    \/ Draw

SpecDraw == InitDraw /\ [][NextDraw]_vars

-----------------------------------------------------------------------------
(* Claims *)

\* C1: in every reachable state scale equals exp(scale_level) and is
\* strictly positive.
C1_ScaleIsExpOfLevel ==
    /\ state.scale = Powf(state.scale_level)
    /\ RLt(R(0), state.scale)

\* C1, its case: a pointer-focused zoom out has been handled while a reset
\* or a zoom had already moved the level off its start.
C1_Witness ==
    /\ last.action = "ZoomPointer"
    /\ last.before.scale_level # canvas.init_zoom
    /\ state.scale_level < 0

\* The pointer-focused zoom of the last event happened under the claim's
\* condition: a CursorMoved was handled with the cursor at a point of the
\* bounds off their centre, and the cursor is still there.
ZoomedAtStoredPointer ==
    /\ last.action = "ZoomPointer"
    /\ hist.moved_at.some
    /\ hist.moved_at.value # BoundsCenter(Bounds)
    /\ cursor = Available(hist.moved_at.value)

\* C2: after a CursorMoved handled with the cursor at a non-centre point p,
\* every pointer-focused zoom with the cursor still at p leaves
\* screen_to_world(p) unchanged.
C2_PointerZoomKeepsWorldPoint ==
    ZoomedAtStoredPointer =>
        ScreenToWorld(cursor.position, Bounds, state.offset, state.scale)
        = ScreenToWorld(cursor.position, Bounds,
                        last.before.offset, last.before.scale)

\* C3: an origin-focused zoom by level_diff followed immediately by an
\* origin-focused zoom by -level_diff restores scale_level and offset.
C3_OriginZoomRoundTrip ==
    (Len(hist.zooms) = 2 /\ hist.zooms[1] # 0 /\ hist.zooms[2] = -hist.zooms[1])
        => View(state) = hist.zoom_base

\* C4: an origin-focused zoom leaves the screen position of the world
\* origin unchanged, for every offset and every step.
C4_OriginZoomKeepsOrigin ==
    last.action = "ZoomOrigin" =>
        transform_path(state, FrameCenter(Bounds), ORIGIN, "None", TRUE)
        = transform_path(last.before, FrameCenter(Bounds), ORIGIN, "None", TRUE)

RECURSIVE VSum(_)
VSum(ds) == IF ds = <<>> THEN Vec(0, 0) ELSE VAdd(Head(ds), VSum(Tail(ds)))

\* The offset after the wheel translations ds, applied in order.
RECURSIVE PanAll(_, _)
PanAll(offset, ds) ==
    IF ds = <<>> THEN offset
    ELSE PanAll(Translate([offset |-> offset], Head(ds)).offset, Tail(ds))

Reordered(ds, perm) == [i \in 1..Len(ds) |-> ds[perm[i]]]

\* C5: after wheel pans d1..dn with no zoom or reset in between, the offset
\* is the offset before them minus their sum, whatever their order.
C5_WheelPansSum ==
    /\ state.offset = VSub(hist.pan_base, VSum(hist.pans))
    /\ \A perm \in Permutations(1..Len(hist.pans)) :
           PanAll(hist.pan_base, Reordered(hist.pans, perm)) = state.offset

\* C5, its case: three wheel pans in a row, not all the same, from an
\* offset that is not zero.
C5_Witness ==
    /\ Len(hist.pans) = 3
    /\ hist.pans[1] # hist.pans[2]
    /\ hist.pans[3] # Vec(0, 0)
    /\ hist.pan_base # Vec(0, 0)

\* C6: a reset-both leaves offset equal to init_scroll() and scale_level
\* equal to init_zoom(), whatever came before.
C6_ResetBothExact ==
    last.action = "ResetBoth" =>
        /\ state.offset = canvas.init_scroll
        /\ state.scale_level = canvas.init_zoom

\* C6, its case: the reset came after the view had left its start, with a
\* stored pointer for which the zoom reset alone shifts the offset.
C6_Witness ==
    /\ last.action = "ResetBoth"
    /\ last.before.offset # canvas.init_scroll
    /\ last.before.scale_level # canvas.init_zoom
    /\ reset_scale(last.before, canvas.init_zoom).offset # last.before.offset

\* Program::update was called for the last event and returned Captured.
UpdateCaptured ==
    /\ last.event.kind \in {"Mouse", "Keyboard", "Touch"}
    /\ last.update = "Captured"

\* C10: an event for which Program::update returns Captured makes on_event
\* return Captured and changes nothing of the view state.
C10_ProgramCaptureFreezesView ==
    UpdateCaptured => (last.status = "Captured" /\ state = last.before)

\* C10, its case: the Program captured an event that the widget would
\* otherwise have acted on.
C10_Witness ==
    /\ UpdateCaptured
    /\ OnEventHovering(canvas, last.before, last.event, last.cursor).state
         # last.before

\* A pan: the last event changed the offset and left the scale alone.
Panned ==
    /\ state.scale = last.before.scale
    /\ state.offset # last.before.offset

\* What the pan took from the offset.
PanDelta == VSub(last.before.offset, state.offset)

\* World coordinates of the points drawn.
DrawnPoints == {Vec(0, 0), Vec(2, 1), Vec(-3, 4)}

\* How far the pan moved the screen position of a path vertex.
PathMove(p, anchor, scaled) ==
    VSub(transform_path(state, FrameCenter(Bounds), p, anchor, scaled),
         transform_path(last.before, FrameCenter(Bounds), p, anchor, scaled))

\* How far the pan moved the screen position of a text.
PointMove(p, anchor) ==
    VSub(translate_point(state, FrameCenter(Bounds), p, anchor),
         translate_point(last.before, FrameCenter(Bounds), p, anchor))

\* C7: for every pan, a point drawn with Anchor::Both keeps its screen
\* position, a point drawn with Anchor::None moves on screen by exactly the pan
\* delta, an Anchor::X point keeps its screen x and moves only in y (by the
\* delta's y), and an Anchor::Y point keeps its screen y and moves only in x.
C7_AnchorsUnderPan ==
    Panned =>
        \A p \in DrawnPoints :
            /\ \A scaled \in BOOLEAN :
                  /\ PathMove(p, "Both", scaled) = Vec(0, 0)
                  /\ PathMove(p, "None", scaled) = PanDelta
                  /\ PathMove(p, "X", scaled) = <<R(0), PanDelta[2]>>
                  /\ PathMove(p, "Y", scaled) = <<PanDelta[1], R(0)>>
            /\ PointMove(p, "Both") = Vec(0, 0)
            /\ PointMove(p, "None") = PanDelta
            /\ PointMove(p, "X") = <<R(0), PanDelta[2]>>
            /\ PointMove(p, "Y") = <<PanDelta[1], R(0)>>

\* A pan along both axes at a scale other than 1.
C7_Witness ==
    /\ Panned
    /\ last.action = "Pan"
    /\ PanDelta[1] # R(0)
    /\ PanDelta[2] # R(0)
    /\ state.scale # R(1)

\* Where the items of the k-th buffer start in the frame, and the item the
\* frame holds for its i-th fill, stroke and text.
Start(k) == Recorded(SubSeq(buffers, 1, k - 1))

EmittedFill(k, i) == frame.items[Start(k) + i]

EmittedStroke(k, i) == frame.items[Start(k) + Len(buffers[k].fills) + i]

EmittedText(k, i) ==
    frame.items[Start(k) + Len(buffers[k].fills) + Len(buffers[k].strokes) + i]

\* The square of the distance between the two ends of a segment.
SqSize(path) ==
    RAdd(RMul(RSub(path[2][1], path[1][1]), RSub(path[2][1], path[1][1])),
         RMul(RSub(path[2][2], path[1][2]), RSub(path[2][2], path[1][2])))

\* The square of the size a buffer's geometry is to have on screen.
SqSizeOnScreen(b, path) ==
    IF b.scale THEN RMul(RMul(state.scale, state.scale), SqSize(path))
    ELSE SqSize(path)

\* C8: geometry of a buffer built with scale_all(false) has on screen the
\* size it has in world units, at every scale_level; geometry of a buffer
\* with scale participation on has on screen scale times its world size.
C8_ScaleParticipation ==
    frame.drawn =>
        \A k \in 1..Len(buffers) :
            /\ \A i \in 1..Len(buffers[k].fills) :
                  SqSize(EmittedFill(k, i).what)
                      = SqSizeOnScreen(buffers[k], buffers[k].fills[i].what)
            /\ \A i \in 1..Len(buffers[k].strokes) :
                  SqSize(EmittedStroke(k, i).what)
                      = SqSizeOnScreen(buffers[k], buffers[k].strokes[i].what)

\* A frame at a scale other than 1 with a fill of a scale_all(false) buffer
\* and a stroke of a buffer that scale_all was never called on.
C8_Witness ==
    /\ frame.drawn
    /\ state.scale # R(1)
    /\ Len(buffers) = 2
    /\ ~buffers[1].scale
    /\ Len(buffers[1].fills) = 1
    /\ buffers[2].scale
    /\ Len(buffers[2].strokes) = 1

\* The anchor an item is to be rendered with.
AnchorOf(b, item) ==
    IF b.anchor.some THEN b.anchor.value ELSE UnwrapOr(item.given, "None")

\* C9: in a buffer whose anchor was set through anchor_all(a), every fill,
\* stroke and text is rendered with a, whatever anchor it was recorded with
\* and whenever it was recorded; in a buffer with no anchor set, every item is
\* rendered with the anchor its call was given, Anchor::None for the calls
\* that take no anchor.
C9_BufferAnchorOverrides ==
    frame.drawn =>
        \A k \in 1..Len(buffers) :
            /\ \A i \in 1..Len(buffers[k].fills) :
                  EmittedFill(k, i).what
                      = TransformPath(state, FrameCenter(Bounds),
                            buffers[k].fills[i].what,
                            AnchorOf(buffers[k], buffers[k].fills[i]),
                            buffers[k].scale)
            /\ \A i \in 1..Len(buffers[k].strokes) :
                  EmittedStroke(k, i).what
                      = TransformPath(state, FrameCenter(Bounds),
                            buffers[k].strokes[i].what,
                            AnchorOf(buffers[k], buffers[k].strokes[i]),
                            buffers[k].scale)
            /\ \A i \in 1..Len(buffers[k].text) :
                  EmittedText(k, i).what
                      = transform_text(state, FrameCenter(Bounds),
                            buffers[k].text[i].what,
                            AnchorOf(buffers[k], buffers[k].text[i]))

\* A frame of a buffer with anchor a that holds a fill recorded by fill()
\* under another anchor, before anchor_all(a), and a text recorded with an
\* explicit anchor other than a.
C9_Witness ==
    /\ frame.drawn
    /\ Len(buffers) = 1
    /\ buffers[1].anchor.some
    /\ Len(buffers[1].fills) = 1
    /\ ~buffers[1].fills[1].given.some
    /\ buffers[1].fills[1].anchor # buffers[1].anchor.value
    /\ Len(buffers[1].text) = 1
    /\ buffers[1].text[1].given.some
    /\ buffers[1].text[1].given.value # buffers[1].anchor.value

\* The last event came with the cursor off the widget bounds, or with no
\* cursor, and the Program did not capture it.
OffWidget ==
    /\ nevents > 0
    /\ ~IsOver(last.cursor, Bounds)
    /\ ~UpdateCaptured

\* C11: for every event, if the cursor is not over the widget bounds and the
\* Program did not capture the event, on_event returns Ignored and offset,
\* scale_level, scale, stored modifiers and stored pointer are unchanged.
C11_NotHoveredIgnored ==
    OffWidget => (last.status = "Ignored" /\ state = last.before)

\* An event off the bounds that changes the state when the cursor is inside.
C11_Witness ==
    /\ OffWidget
    /\ OnEventMatch(canvas, last.before, last.event,
                    Available(PInside)).state # last.before

\* The last event reached the match of on_event: the cursor was over the
\* bounds and the Program did not capture the event.
Hovered ==
    /\ nevents > 0
    /\ IsOver(last.cursor, Bounds)
    /\ ~UpdateCaptured

\* A wheel event handled while hovering, zoom allowed and scrolling allowed.
WheelHandled ==
    /\ Hovered
    /\ last.event.name = "WheelScrolled"
    /\ canvas.allow_scale
    /\ canvas.direction # "None"

ArrowHandled ==
    /\ Hovered
    /\ last.event.name = "KeyPressed"
    /\ last.event.key \in {"ArrowUp", "ArrowDown", "ArrowLeft", "ArrowRight"}
    /\ canvas.allow_scale
    /\ canvas.direction # "None"

\* C13: each of the four arrow keys pressed while hovering is an
\* origin-focused zoom with Shift and Command held, a pointer-focused zoom
\* with only Shift held, a pan with Command held and no Shift; with Shift held
\* it is never a pan.
C13_ArrowClassified ==
    ArrowHandled =>
        /\ (last.event.modifiers.shift /\ last.event.modifiers.command)
              => last.action = "ZoomOrigin"
        /\ (last.event.modifiers.shift /\ ~last.event.modifiers.command)
              => last.action = "ZoomPointer"
        /\ (~last.event.modifiers.shift /\ last.event.modifiers.command)
              => last.action = "Pan"
        /\ last.event.modifiers.shift => last.action # "Pan"

\* A wheel event handled while hovering with no Shift stored, on a canvas
\* with no scroll_step configured.
WheelPanned ==
    /\ Hovered
    /\ last.event.name = "WheelScrolled"
    /\ ~last.before.keyboard_modifier.shift
    /\ ~canvas.offset_step.some

\* The wheel's delta with the components the direction forbids set to zero,
\* times 100 for a delta in lines.
PanDeltaOf(direction, event) ==
    VScale(<<IF direction \in {"X", "Both"} THEN event.delta[1] ELSE R(0),
             IF direction \in {"Y", "Both"} THEN event.delta[2] ELSE R(0)>>,
           IF event.unit = "Lines" THEN R(100) ELSE R(1))

\* C14: a wheel event with no Shift held and no scroll_step configured
\* decreases the offset by the wheel's delta filtered by the ScrollDirection,
\* times 100 for lines and 1 for pixels; Lines{x:0,y:1} with direction Both
\* changes the offset by (0,-100); with ScrollDirection::None the event is
\* Ignored and the offset unchanged.
C14_WheelPanDelta ==
    WheelPanned =>
        /\ canvas.direction = "None"
              => (last.status = "Ignored" /\ state = last.before)
        /\ canvas.direction # "None"
              => state.offset = VSub(last.before.offset,
                                     PanDeltaOf(canvas.direction, last.event))
        /\ (canvas.direction = "Both"
               /\ last.event = WheelScrolled("Lines", 0, 1))
              => state.offset = VAdd(last.before.offset, Vec(0, -100))

\* A wheel of lines along both axes on a canvas that scrolls along x only.
C14_Witness ==
    /\ WheelPanned
    /\ canvas.direction = "X"
    /\ last.event = WheelScrolled("Lines", 1, -1)
    /\ state.offset # last.before.offset

\* The last event was a Command+arrow pan.
ArrowPanned ==
    /\ last.action = "Pan"
    /\ last.event.name = "KeyPressed"

\* How far the same key press moves Anchor::None content on screen when
\* the view is at scale_level level, all else equal.
ArrowMoveAtLevel(level) ==
    VSub(last.before.offset,
         OnKeyPressed(canvas, set_scale_level(last.before, level),
                      last.event.key, last.event.modifiers).state.offset)

\* C15: one Command+arrow pan moves rendered Anchor::None content by the
\* same screen distance at every zoom level: the displacement on screen is
\* the one the key press causes at any other scale_level.
C15_ArrowPanScreenDistance ==
    ArrowPanned =>
        \A p \in DrawnPoints, level \in {-1, 0, 1, 2} :
            PathMove(p, "None", TRUE) = ArrowMoveAtLevel(level)

\* A Home key pressed while hovering.
HomeHandled ==
    /\ Hovered
    /\ last.event.name = "KeyPressed"
    /\ last.event.key = "Home"

\* C16: a Home key press while hovering is classified by the event's
\* modifiers: with Command, with or without Shift, offset and zoom are both
\* reset; with Shift and no Command the zoom level alone is reset (no reset of
\* the offset to init_scroll, no on_scroll_reset); with no modifier the offset
\* alone is reset and scale_level and scale are unchanged; the event is
\* Captured.
C16_HomeClassified ==
    HomeHandled =>
        /\ last.status = "Captured"
        /\ IF last.event.modifiers.command
           THEN /\ state.offset = canvas.init_scroll
                /\ state.scale_level = canvas.init_zoom
                /\ state.scale = Powf(canvas.init_zoom)
                /\ Len(last.calls) = 2
                /\ last.calls[1].name = "on_scroll_reset"
                /\ last.calls[2].name = "on_zoom_reset"
           ELSE IF last.event.modifiers.shift
           THEN /\ state = reset_scale(last.before, canvas.init_zoom)
                /\ Len(last.calls) = 1
                /\ last.calls[1].name = "on_zoom_reset"
           ELSE /\ state = reset_offset(last.before, canvas.init_scroll)
                /\ state.scale_level = last.before.scale_level
                /\ state.scale = last.before.scale
                /\ Len(last.calls) = 1
                /\ last.calls[1].name = "on_scroll_reset"

\* Home with Shift and Command at a view away from the initial one.
C16_Witness ==
    /\ HomeHandled
    /\ last.event.modifiers = Mods(TRUE, TRUE)
    /\ last.before.offset # canvas.init_scroll
    /\ last.before.scale_level # canvas.init_zoom

\* The last event is no wheel event and no arrow or Home key, and the
\* Program did not capture it.
Unrecognised ==
    /\ nevents > 0
    /\ ~UpdateCaptured
    /\ last.event.name # "WheelScrolled"
    /\ ~(/\ last.event.name = "KeyPressed"
         /\ last.event.key \in {"ArrowUp", "ArrowDown", "ArrowLeft",
                                 "ArrowRight", "Home"})

\* C17: every event that is no recognised wheel, arrow-key or Home pattern
\* (CursorMoved, CursorLeft, ModifiersChanged, any other key, mouse buttons,
\* touch) and that the Program did not capture is reported as Ignored.
C17_UnrecognisedIgnored == Unrecognised => last.status = "Ignored"

\* C18: whenever on_scroll is invoked (wheel pan, Command+arrow pan, the
\* implicit pan of a zoom), its scroll argument is the offset after the
\* action and its diff argument is the offset after minus the offset before.
C18_OnScrollArguments ==
    \A i \in 1..Len(last.calls) :
        last.calls[i].name = "on_scroll" =>
            /\ last.calls[i].scroll = state.offset
            /\ last.calls[i].diff = VSub(state.offset, last.before.offset)

\* A Command+ArrowRight or Command+ArrowDown pan, which adds to the offset,
\* at a scale other than 1.
C18_Witness ==
    /\ ArrowPanned
    /\ last.event.key \in {"ArrowRight", "ArrowDown"}
    /\ Len(last.calls) = 1
    /\ last.calls[1].name = "on_scroll"
    /\ last.calls[1].diff # Vec(0, 0)
    /\ last.before.scale # R(1)

\* C19: after any ModifiersChanged(m) event is delivered to the widget the
\* stored modifiers equal m, also when the cursor is off the widget bounds
\* and when Program::update returned Captured.
C19_ModifiersStored ==
    last.event.name = "ModifiersChanged"
        => state.keyboard_modifier = last.event.modifiers

\* C20: the stored pointer position is None in every state in which the
\* cursor is outside the viewport or unavailable, and Some only while the
\* pointer is inside the viewport.
C20_PointerNoneOutside ==
    ~IsOver(cursor, Bounds) => ~state.mouse_position.some

\* The last event was a pointer-focused zoom or a zoom reset with no pointer
\* position stored.
ZoomedWithoutPointer ==
    /\ last.action \in {"ZoomPointer", "ResetZoom"}
    /\ ~last.before.mouse_position.some

\* C21: with no stored pointer position a pointer-focused zoom and a zoom
\* reset take the world origin as focal point: the offset correction is zero,
\* the offset is unchanged and the world origin keeps its screen position.
C21_NoPointerFocalOrigin ==
    ZoomedWithoutPointer =>
        /\ state.offset = last.before.offset
        /\ \A i \in 1..Len(last.calls) :
              /\ last.calls[i].name = "on_scroll"
                    => last.calls[i].diff = Vec(0, 0)
              /\ last.calls[i].name = "on_zoom"
                    => last.calls[i].focal_point = ORIGIN
        /\ transform_path(state, FrameCenter(Bounds), ORIGIN, "None", TRUE)
             = transform_path(last.before, FrameCenter(Bounds), ORIGIN,
                              "None", TRUE)

\* A pointer-focused zoom with no pointer stored, at an offset other than 0.
C21_Witness ==
    /\ ZoomedWithoutPointer
    /\ last.action = "ZoomPointer"
    /\ state.scale # last.before.scale
    /\ last.before.offset # Vec(0, 0)

\* The stored pointer position before the last event, the origin if none.
StoredPointer == UnwrapOr(last.before.mouse_position, ORIGIN)

\* C22: a zoom reset (Shift+Home) sets scale_level to init_zoom() and adds
\* to the offset (scale_new - scale_old) times the stored pointer position
\* with y negated, so that the world point stored as the pointer position has
\* the same screen position before and after the reset.
C22_ZoomResetCorrection ==
    last.action = "ResetZoom" =>
        /\ state.scale_level = canvas.init_zoom
        /\ state.offset
             = VAdd(last.before.offset,
                    <<RMul(RSub(state.scale, last.before.scale),
                           StoredPointer[1]),
                      RNeg(RMul(RSub(state.scale, last.before.scale),
                                StoredPointer[2]))>>)
        /\ transform_path(state, FrameCenter(Bounds), StoredPointer,
                          "None", TRUE)
             = transform_path(last.before, FrameCenter(Bounds), StoredPointer,
                              "None", TRUE)

\* A zoom reset that changes the scale with a pointer stored off the origin.
C22_Witness ==
    /\ last.action = "ResetZoom"
    /\ last.before.mouse_position.some
    /\ StoredPointer[1] # R(0)
    /\ StoredPointer[2] # R(0)
    /\ state.scale # last.before.scale

\* C23: text is never scaled: a rendered text keeps its font size at every
\* zoom level, and a text positioned at p lands on the screen point of a path
\* vertex at p rendered in the same buffer with the same anchor, in buffers
\* with scale_all(true) and with scale_all(false).
C23_TextFollowsGeometry ==
    frame.drawn =>
        \A k \in 1..Len(buffers) :
            \A i \in 1..Len(buffers[k].text) :
                /\ EmittedText(k, i).what.size = buffers[k].text[i].what.size
                /\ \A j \in 1..Len(buffers[k].fills), v \in 1..2 :
                      (/\ buffers[k].fills[j].what[v]
                            = buffers[k].text[i].what.position
                       /\ AnchorOf(buffers[k], buffers[k].fills[j])
                            = AnchorOf(buffers[k], buffers[k].text[i]))
                      => EmittedFill(k, j).what[v]
                            = EmittedText(k, i).what.position
                /\ \A j \in 1..Len(buffers[k].strokes), v \in 1..2 :
                      (/\ buffers[k].strokes[j].what[v]
                            = buffers[k].text[i].what.position
                       /\ AnchorOf(buffers[k], buffers[k].strokes[j])
                            = AnchorOf(buffers[k], buffers[k].text[i]))
                      => EmittedStroke(k, j).what[v]
                            = EmittedText(k, i).what.position

\* The Anchor::None world-to-screen transform of a point about the centre
\* of the bounds, in the current view.
WorldToScreen(w) ==
    translate_point(state, BoundsCenter(Bounds), w, "None")

\* screen_to_world in the current view.
ScreenToWorldNow(p) ==
    ScreenToWorld(p, Bounds, state.offset, state.scale)

\* C24: screen_to_world as get_cursors and wrap_event compute it is the
\* inverse of the Anchor::None world-to-screen transform at every offset and
\* scale: each undoes the other, and wrap_event and get_cursors give the same
\* world point for the same screen point.
C24_ScreenWorldInverse ==
    /\ \A w \in DrawnPoints : ScreenToWorldNow(WorldToScreen(w)) = w
    /\ \A p \in CursorPoints :
          /\ WorldToScreen(ScreenToWorldNow(p)) = p
          /\ wrap_event(CursorMoved(p), Bounds, state.offset,
                        state.scale).value.position
               = get_cursors(Available(p), Bounds, state.offset,
                             state.scale).position
    /\ last.action = "CursorMoved"
          => WorldToScreen(state.mouse_position.value) = last.cursor.position

\* A CursorMoved that stored the pointer off the centre, in a view with an
\* offset on both axes and a scale other than 1.
C24_Witness ==
    /\ last.action = "CursorMoved"
    /\ last.cursor.position = PInside
    /\ state.offset[1] # R(0)
    /\ state.offset[2] # R(0)
    /\ state.scale # R(1)

\* The cursor is over the viewport, where the last handled CursorMoved
\* event found it.
CursorStayed ==
    /\ hist.moved_at.some
    /\ cursor = Available(hist.moved_at.value)
    /\ IsOver(cursor, Bounds)

\* C25: after every handled event, if the cursor is over the viewport and
\* has not moved since the last handled CursorMoved event, the stored pointer
\* position is screen_to_world of the cursor position at the current offset
\* and scale, also after pans, origin-focused zooms and resets.
C25_StoredPointerFresh ==
    CursorStayed
        => state.mouse_position = Some(ScreenToWorldNow(cursor.position))

\* C26: every on_event call that leaves the offset different from its value
\* before the call invokes on_scroll or on_scroll_reset during that call, the
\* focal-point correction of a zoom reset (Shift+Home) included.
C26_OffsetChangeNotified ==
    state.offset # last.before.offset
        => \E i \in 1..Len(last.calls) :
               last.calls[i].name \in {"on_scroll", "on_scroll_reset"}

\* The last event was a zoom input handled while hovering: a wheel event with
\* Shift stored, or ArrowUp or ArrowDown pressed with Shift, Command or not.
ZoomInput ==
    /\ Hovered
    /\ \/ /\ last.event.name = "WheelScrolled"
          /\ last.before.keyboard_modifier.shift
       \/ /\ last.event.name = "KeyPressed"
          /\ last.event.key \in {"ArrowUp", "ArrowDown"}
          /\ last.event.modifiers.shift

\* C27: on a canvas built with zoom(false), scale_level is init_zoom() and
\* scale is exp(init_zoom()) in every reachable state, and every zoom input
\* is Ignored, invokes no callback and leaves the whole view state, offset
\* and scale included, as it was: it is not treated as a pan.
C27_ZoomDisabled ==
    ~canvas.allow_scale =>
        /\ state.scale_level = canvas.init_zoom
        /\ state.scale = Powf(canvas.init_zoom)
        /\ ZoomInput => /\ last.status = "Ignored"
                        /\ last.calls = <<>>
                        /\ state = last.before

\* C27, its case: a wheel event arrives with Shift stored on a zoom(false)
\* canvas whose initial zoom level is not 0, after the view was moved.
C27_Witness ==
    /\ ~canvas.allow_scale
    /\ canvas.init_zoom # 0
    /\ ZoomInput
    /\ last.event.name = "WheelScrolled"
    /\ state.offset # canvas.init_scroll

\* C28: the scroll direction constrains the offset over whole histories:
\* with direction X the y component of the offset, with direction Y its x
\* component, and with direction None both components keep their
\* init_scroll() value in every reachable state.
C28_DirectionConstrainsOffset ==
    /\ canvas.direction \in {"Y", "None"}
          => state.offset[1] = canvas.init_scroll[1]
    /\ canvas.direction \in {"X", "None"}
          => state.offset[2] = canvas.init_scroll[2]

\* The last event was a wheel event that zoomed.
WheelZoomed ==
    /\ last.event.name = "WheelScrolled"
    /\ last.action \in {"ZoomOrigin", "ZoomPointer"}

\* C29: a wheel zoom changes scale_level by exactly the zoom step: by -step
\* when the wheel's y is below 0 and by +step otherwise, a y of 0 included,
\* whatever the magnitude and the unit of the delta.
C29_WheelZoomStep ==
    WheelZoomed =>
        state.scale_level - last.before.scale_level
            = IF RLt(last.event.delta[2], R(0)) THEN -SCALE_STEP
              ELSE SCALE_STEP

\* C29, its case: a wheel event with a y of 0 zoomed.
C29_Witness ==
    /\ WheelZoomed
    /\ last.event.delta[2] = R(0)
    /\ last.before.scale_level # canvas.init_zoom

\* C30: the frame holds the buffers' items buffer by buffer in the order the
\* buffers were given, and within a buffer all fills, then all strokes, then
\* all text, each kind in the order it was recorded.  The order in which
\* calls of different kinds were made on a buffer plays no part: every
\* interleaving of the recording calls ends in the same three lists.
C30_DrawOrder ==
    frame.drawn =>
        /\ Len(frame.items) = Recorded(buffers)
        /\ \A k \in 1..Len(buffers) :
              /\ \A i \in 1..Len(buffers[k].fills) :
                    /\ EmittedFill(k, i).call = "fill"
                    /\ EmittedFill(k, i).what
                          = TransformPath(state, FrameCenter(Bounds),
                                buffers[k].fills[i].what,
                                AnchorOf(buffers[k], buffers[k].fills[i]),
                                buffers[k].scale)
              /\ \A i \in 1..Len(buffers[k].strokes) :
                    /\ EmittedStroke(k, i).call = "stroke"
                    /\ EmittedStroke(k, i).what
                          = TransformPath(state, FrameCenter(Bounds),
                                buffers[k].strokes[i].what,
                                AnchorOf(buffers[k], buffers[k].strokes[i]),
                                buffers[k].scale)
              /\ \A i \in 1..Len(buffers[k].text) :
                    /\ EmittedText(k, i).call = "fill_text"
                    /\ EmittedText(k, i).what
                          = transform_text(state, FrameCenter(Bounds),
                                buffers[k].text[i].what,
                                AnchorOf(buffers[k], buffers[k].text[i]))

\* C30, its case: a frame drawn from two buffers, the first holding a text
\* and the second a fill, so that the order of the buffers and the order of
\* the kinds disagree.
C30_Witness ==
    /\ frame.drawn
    /\ Len(buffers) = 2
    /\ Len(buffers[1].text) = 1
    /\ Len(buffers[2].fills) = 1
    /\ frame.items[1].call = "fill_text"
    /\ frame.items[2].call = "fill"

====
